---- MODULE Spec2Model ----
(***************************************************************************)
(* Model of the trycatch crate (src/src/lib.rs): catch / throw built on    *)
(* panic_any, catch_unwind and the process-wide panic hook.                *)
(*                                                                         *)
(* A thread is a call stack of frames.  User code is nondeterministic: in  *)
(* the running frame it may call a function, return, call catch, call      *)
(* throw, panic with an ordinary payload, or use the result of the last    *)
(* catch it made.  The library steps (register_catch, catch_unwind,        *)
(* map_err, Unregister::drop) are translated from the source.              *)
(***************************************************************************)
EXTENDS Integers, Sequences, FiniteSets, TLC

(* ---- bounds ---- *)
NumThreads == 2        \* threads that exist (the hook is shared by all)
MaxStack   == 4        \* frames per thread, the root frame included
MaxPanics  == 3        \* unwinds started in one run
MaxWrap    == 2        \* Box<dyn Exception> layers added by re-throwing a box
MaxAttrs   == 2        \* attributes in front of a declaration given to the derive

Threads    == 1..NumThreads
MainThread == {1}

(* ---- exception types of the tests, by what they override ---- *)
ExcTypes  == {"MyE", "A", "B", "Bare"}
UserHooks == {"H"}

Unimplemented == "unimplemented!"
CarrierTypeId == "Box<dyn Exception>"

\* a trait default that returns a fallback name instead of aborting
TypeNameFallback(ty) ==
  CASE ty = "MyE" -> "MyE"
    [] ty = "B"   -> "B"
    [] OTHER      -> "Exception"

\* fn name(&self) of each concrete type; the trait default is unimplemented!()
TypeName(ty) ==
  CASE ty = "MyE" -> "MyE"
    [] ty = "B"   -> "B"
    [] OTHER      -> Unimplemented

\* fn payload(&self) of each concrete type, as a Box<dyn Any>: the concrete
\* type of the boxed value and the value
TypePayload(ty) ==
  CASE ty = "MyE" -> [tyid |-> "&str", val |-> "MyE exception"]
    [] ty = "A"   -> [tyid |-> "B",    val |-> "B"]
    [] OTHER      -> [tyid |-> Unimplemented, val |-> Unimplemented]

\* a value e passed to throw: concrete type ty behind `wrap` layers of
\* Box<dyn Exception> (0 = the concrete struct itself)
Exc(ty, w) == [ty |-> ty, wrap |-> w]
NoExc      == [ty |-> "none", wrap |-> 0]

\* an impl for Box<dyn Exception> that leaves name() to the trait default
nameNoDeref(e) == IF e.wrap > 0 THEN Unimplemented ELSE TypeName(e.ty)

\* impl Exception for Box<dyn Exception>: (**self).name() / (**self).payload()
RECURSIVE name(_)
name(e) == IF e.wrap > 0 THEN name([e EXCEPT !.wrap = @ - 1]) ELSE TypeName(e.ty)

\* an impl for Box<dyn Exception> whose payload() boxes the exception itself
payloadOfBox(e) ==
  IF e.wrap > 0 THEN [tyid |-> CarrierTypeId, val |-> e.ty] ELSE TypePayload(e.ty)

RECURSIVE payload(_)
payload(e) == IF e.wrap > 0 THEN payload([e EXCEPT !.wrap = @ - 1]) ELSE TypePayload(e.ty)

(* ---- unwind payloads: Box<dyn Any + Send> ---- *)
\* tyid is the TypeId of the boxed value, exc the boxed exception if any
NoPayload == [tyid |-> "none", exc |-> NoExc, msg |-> ""]

\* Box::new(e) without the coercion to Box<dyn Exception>
CarrierUncoerced(e) == [tyid |-> "Box<" \o e.ty \o ">", exc |-> e, msg |-> ""]

\* Box::new(e) as Box<dyn Exception>, handed to panic_any
Carrier(e) == [tyid |-> CarrierTypeId, exc |-> e, msg |-> ""]

\* ordinary panics: panic!("literal"), and panic_any of a box that was not
\* coerced to the carrier type
StrPanic(m)    == [tyid |-> "&str", exc |-> NoExc, msg |-> m]
OtherPanics    == {StrPanic("this is an intended test panic"),
                   [tyid |-> "Box<MyE>", exc |-> Exc("MyE", 0), msg |-> ""]}
UnimplPanic    == StrPanic("not implemented")

(* ---- hooks ---- *)
DefaultHook     == [kind |-> "default", id |-> "", owner |-> 0, level |-> 0]
UserHook(h)     == [kind |-> "user", id |-> h, owner |-> 0, level |-> 0]
\* a register_catch that leaves the default hook of take_hook in place
FilterHookMissing(t,l) == [kind |-> "default", id |-> "", owner |-> 0, level |-> 0]

\* the closure register_catch installs; owner/level tell the installations apart
FilterHook(t,l) == [kind |-> "filter", id |-> "", owner |-> t, level |-> l]
NoHook          == [kind |-> "none", id |-> "", owner |-> 0, level |-> 0]

(* ---- catch results: Result<(), CatchError> ---- *)
\* kind/exc/p are the value; the other fields remember, for the properties,
\* the unwind it came from: src the payload panic_any was given, thrown the
\* value throw was given, crossed the function frames unwound, origin the
\* statement that raised it, inner the innermost catch active when it was
\* raised, by the catch that returned it
NoResult == [kind |-> "none", exc |-> NoExc, p |-> NoPayload,
             src |-> NoPayload, thrown |-> NoExc, crossed |-> 0,
             origin |-> "none", by |-> 0, inner |-> 0]

VARIABLES
  hook,      \* the process-wide panic hook
  log,       \* what the hooks have printed, in order
  stack,     \* stack[t]: the frames of thread t, root first
  pc,        \* pc[t]: where thread t is
  inflight,  \* inflight[t]: the unwind in progress in thread t
  npanics,   \* unwinds started so far
  consumed,  \* unwinds ended: classified by a catch, or ended a thread
  entered,   \* the threads that have called catch
  obs,       \* what user code last read from a caught exception
  derive     \* the run of derive_exception (trycatch-derive)

vars == <<hook, log, stack, pc, inflight, npanics, consumed, entered, obs, derive>>

NoObs == [op |-> "none", thread |-> 0, exc |-> NoExc, ty |-> "", ok |-> FALSE,
          val |-> "", rest |-> [tyid |-> "", val |-> ""]]

\* no macro expansion is running
DeriveIdle == [tokens |-> <<>>, pos |-> 0, mpc |-> "off", ident |-> "", out |-> "",
               polls |-> 0]

NoFlight == [p |-> NoPayload, src |-> NoPayload, thrown |-> NoExc,
             crossed |-> 0, origin |-> "none", inner |-> 0]

\* a frame: root (thread entry), call (an ordinary function), catch (a call
\* of catch; its closure runs in it).  last_hook is the Unregister guard,
\* held the last catch result this frame's code received, raised the number
\* of unwinds its code started, entry the hook in force when catch was called
Frame(k) == [kind |-> k, last_hook |-> NoHook, entry |-> NoHook,
             result |-> NoResult, held |-> NoResult, raised |-> 0]

Top(t)   == stack[t][Len(stack[t])]
Depth(t) == Len(stack[t])

SetTop(t, f) == [stack EXCEPT ![t] = [@ EXCEPT ![Len(@)] = f]]
Pop(t)       == [stack EXCEPT ![t] = SubSeq(@, 1, Len(@) - 1)]

CatchLevels(t) == {i \in 1..Len(stack[t]) : stack[t][i].kind = "catch"}
InCatch(t)     == CatchLevels(t) # {}
Innermost(t)   == IF InCatch(t)
                  THEN CHOOSE i \in CatchLevels(t) : \A j \in CatchLevels(t) : j <= i
                  ELSE 0
Outermost(t)   == IF InCatch(t)
                  THEN CHOOSE i \in CatchLevels(t) : \A j \in CatchLevels(t) : i <= j
                  ELSE 0

Init ==
  /\ hook = DefaultHook
  /\ log = <<>>
  /\ stack = [t \in Threads |-> <<Frame("root")>>]
  /\ pc = [t \in Threads |-> "run"]
  /\ inflight = [t \in Threads |-> NoFlight]
  /\ npanics = 0
  /\ consumed = 0
  /\ entered = {}
  /\ obs = NoObs
  /\ derive = DeriveIdle

(* ---- the panic hook ---- *)
\* a filter that prints carriers too
HookPrintsAll(h, p) ==
  CASE h.kind = "default" -> "stderr"
    [] h.kind = "user"    -> h.id
    [] h.kind = "filter"  -> "stderr"
    [] OTHER              -> ""

\* a filter that prints nothing at all
HookPrintsNothing(h, p) ==
  CASE h.kind = "default" -> "stderr"
    [] h.kind = "user"    -> h.id
    [] OTHER              -> ""

\* where hook h prints a panic with payload p ("" = prints nothing).
\* default hook: the message on stderr.  filter: lib.rs:73-84, nothing for a
\* carrier, else eprintln!("{}", panic_info) by itself (no call of last_hook)
HookPrints(h, p) ==
  CASE h.kind = "default" -> "stderr"
    [] h.kind = "user"    -> h.id
    [] h.kind = "filter"  -> IF p.tyid = CarrierTypeId THEN "" ELSE "stderr"
    [] OTHER              -> ""

\* the hook in force before thread t entered its outermost active catch
Ambient(t) == IF InCatch(t) THEN stack[t][Outermost(t)].last_hook ELSE NoHook

LogEntry(t, p) ==
  [sink |-> HookPrints(hook, p), tyid |-> p.tyid, thread |-> t,
   incatch |-> InCatch(t), ambient |-> Ambient(t)]

(* ---- std::panic::panic_any(p): run the hook, then unwind ---- *)
panic_any(t, p, origin, e) ==
  /\ pc[t] = "run"
  /\ npanics < MaxPanics
  /\ log' = IF HookPrints(hook, p) # "" THEN Append(log, LogEntry(t, p)) ELSE log
  /\ inflight' = [inflight EXCEPT ![t] =
                    [p |-> p, src |-> p, thrown |-> e, crossed |-> 0,
                     origin |-> origin, inner |-> Innermost(t)]]
  /\ stack' = SetTop(t, [Top(t) EXCEPT !.raised = @ + 1])
  /\ pc' = [pc EXCEPT ![t] = "unwinding"]
  /\ npanics' = npanics + 1
  /\ obs' = NoObs
  /\ UNCHANGED <<hook, consumed, entered, derive>>

\* a throw that runs the hook and comes back to its caller
throwReturns(t, e, origin) ==
  /\ pc[t] = "run"
  /\ npanics < MaxPanics
  /\ log' = IF HookPrints(hook, Carrier(e)) # ""
            THEN Append(log, LogEntry(t, Carrier(e))) ELSE log
  /\ stack' = SetTop(t, [Top(t) EXCEPT !.raised = @ + 1])
  /\ npanics' = npanics + 1
  /\ obs' = NoObs
  /\ UNCHANGED <<hook, pc, inflight, consumed, entered, derive>>

\* pub fn throw(e: impl Exception): panic_any(Box::new(e) as Box<dyn Exception>)
throw(t, e, origin) == panic_any(t, Carrier(e), origin, e)

(* ---- user code ---- *)
\* throw(X {}) for a concrete exception type
Throw(t) == \E ty \in ExcTypes : throw(t, Exc(ty, 0), "throw")

\* panic!("...") or panic_any of a non-carrier value
Panic(t) == \E p \in OtherPanics : panic_any(t, p, "panic", NoExc)

\* complex(), lib.rs:257-265: take payload() of the caught exception and
\* throw the exception value found in it; payload() of a type that does
\* not override it is unimplemented!()
ThrowPayload(t) ==
  /\ Top(t).held.kind = "Exception"
  /\ LET pl == payload(Top(t).held.exc) IN
       \/ /\ pl.tyid = Unimplemented
          /\ panic_any(t, UnimplPanic, "unimplemented", NoExc)
       \/ /\ pl.tyid \in ExcTypes
          /\ throw(t, Exc(pl.tyid, 0), "payload")

\* throw(x) with x the caught Box<dyn Exception>
Rethrow(t) ==
  /\ Top(t).held.kind = "Exception"
  /\ Top(t).held.exc.wrap < MaxWrap
  /\ throw(t, [Top(t).held.exc EXCEPT !.wrap = @ + 1], "rethrow")

\* the running frame goes on to its next call: the catch result it held, if
\* any, has been looked at and is dropped
Proceed(t) == [stack[t] EXCEPT ![Len(stack[t])].held = NoResult]

\* an ordinary function call and its return
Call(t) ==
  /\ pc[t] = "run"
  /\ Depth(t) < MaxStack
  /\ stack' = [stack EXCEPT ![t] = Append(Proceed(t), Frame("call"))]
  /\ obs' = NoObs
  /\ UNCHANGED <<hook, log, pc, inflight, npanics, consumed, entered, derive>>

Return(t) ==
  /\ pc[t] = "run"
  /\ Top(t).kind = "call"
  /\ stack' = Pop(t)
  /\ obs' = NoObs
  /\ UNCHANGED <<hook, log, pc, inflight, npanics, consumed, entered, derive>>

\* std::panic::set_hook(H) by the program, outside every catch
SetUserHook(t) ==
  /\ pc[t] = "run"
  /\ \A u \in Threads : ~InCatch(u)
  /\ \E h \in UserHooks : hook' = UserHook(h)
  /\ hook' # hook
  /\ obs' = NoObs
  /\ UNCHANGED <<log, stack, pc, inflight, npanics, consumed, entered, derive>>

\* the thread's entry function returns
Finish(t) ==
  /\ pc[t] = "run"
  /\ Top(t).kind = "root"
  /\ pc' = [pc EXCEPT ![t] = "done"]
  /\ obs' = NoObs
  /\ UNCHANGED <<hook, log, stack, inflight, npanics, consumed, entered, derive>>

(* ---- catch, lib.rs:67-105 ---- *)
\* register_catch, line 71: let last_hook = take_hook() (the default hook
\* is registered in its place)
RegisterTake(t) ==
  /\ pc[t] = "run"
  /\ Depth(t) < MaxStack
  /\ stack' = [stack EXCEPT ![t] =
                 Append(Proceed(t), [Frame("catch") EXCEPT !.last_hook = hook, !.entry = hook])]
  /\ hook' = DefaultHook
  /\ pc' = [pc EXCEPT ![t] = "taken"]
  /\ entered' = entered \cup {t}
  /\ obs' = NoObs
  /\ UNCHANGED <<log, inflight, npanics, consumed, derive>>

\* register_catch, lines 73-92: set_hook(filter); Unregister(Some(last_hook))
\* is returned and the closure starts
RegisterSet(t) ==
  /\ pc[t] = "taken"
  /\ hook' = FilterHook(t, Depth(t))
  /\ pc' = [pc EXCEPT ![t] = "run"]
  /\ obs' = NoObs
  /\ UNCHANGED <<log, stack, inflight, npanics, consumed, entered, derive>>

\* classifying by "there is an exception in the box" instead of by the type
MapErrAnyBox(p) ==
  IF p.exc # NoExc
  THEN [kind |-> "Exception", exc |-> p.exc, p |-> NoPayload]
  ELSE [kind |-> "Panic", exc |-> NoExc, p |-> p]

\* swallowing ordinary panics
MapErrSwallow(p) ==
  IF p.tyid = CarrierTypeId
  THEN [kind |-> "Exception", exc |-> p.exc, p |-> NoPayload]
  ELSE [kind |-> "Ok", exc |-> NoExc, p |-> NoPayload]

\* classifying only after a look at name()
MapErrByName(p) ==
  IF p.tyid = CarrierTypeId /\ name(p.exc) # Unimplemented
  THEN [kind |-> "Exception", exc |-> p.exc, p |-> NoPayload]
  ELSE [kind |-> "Panic", exc |-> NoExc, p |-> p]

\* classifying only after a look at payload()
MapErrByPayload(p) ==
  IF p.tyid = CarrierTypeId /\ payload(p.exc).tyid # Unimplemented
  THEN [kind |-> "Exception", exc |-> p.exc, p |-> NoPayload]
  ELSE [kind |-> "Panic", exc |-> NoExc, p |-> p]

\* the closure of map_err, lines 96-102
MapErr(p) ==
  IF p.tyid = CarrierTypeId
  THEN [kind |-> "Exception", exc |-> p.exc, p |-> NoPayload]
  ELSE [kind |-> "Panic", exc |-> NoExc, p |-> p]

Classified(t, r) ==
  [kind |-> r.kind, exc |-> r.exc, p |-> r.p,
   src |-> inflight[t].src, thrown |-> inflight[t].thrown,
   crossed |-> inflight[t].crossed,
   origin |-> inflight[t].origin, by |-> Depth(t), inner |-> inflight[t].inner]

OkResult(t) == [NoResult EXCEPT !.kind = "Ok", !.by = Depth(t)]

\* catch_unwind(expr) returns Ok(()): the closure ran to its end
CatchUnwindOk(t) ==
  /\ pc[t] = "run"
  /\ Top(t).kind = "catch"
  /\ stack' = SetTop(t, [Top(t) EXCEPT !.result = OkResult(t)])
  /\ pc' = [pc EXCEPT ![t] = "drop"]
  /\ obs' = NoObs
  /\ UNCHANGED <<hook, log, inflight, npanics, consumed, entered, derive>>

\* only the outermost catch stops an unwind
InterceptsOutermost(t, i) == stack[t][i].kind = "catch" /\ i = Outermost(t)

\* does frame i of thread t stop an unwind (is it a catch_unwind boundary)
Intercepts(t, i) == stack[t][i].kind = "catch"

\* the unwind leaves an ordinary function frame
UnwindFrame(t) ==
  /\ pc[t] = "unwinding"
  /\ Top(t).kind # "root"
  /\ ~Intercepts(t, Depth(t))
  /\ stack' = Pop(t)
  /\ inflight' = [inflight EXCEPT ![t].crossed = @ + 1]
  /\ obs' = NoObs
  /\ UNCHANGED <<hook, log, pc, npanics, consumed, entered, derive>>

\* catch_unwind(expr) returns Err(e), and map_err classifies e
CatchUnwindErr(t) ==
  /\ pc[t] = "unwinding"
  /\ Top(t).kind # "root"
  /\ Intercepts(t, Depth(t))
  /\ stack' = SetTop(t, [Top(t) EXCEPT !.result = Classified(t, MapErr(inflight[t].p))])
  /\ inflight' = [inflight EXCEPT ![t] = NoFlight]
  /\ consumed' = consumed + 1
  /\ pc' = [pc EXCEPT ![t] = "drop"]
  /\ obs' = NoObs
  /\ UNCHANGED <<hook, log, npanics, entered, derive>>

\* a guard that puts the default hook back instead of the one it took
Unregister_dropDefault(g) == DefaultHook

\* Unregister::drop, lines 87-91: the hook set_hook(self.0.take().unwrap()) sets
Unregister_drop(g) == g

\* end of the block of catch: _g is dropped, the result goes to the caller
GuardDrop(t) ==
  /\ pc[t] = "drop"
  /\ hook' = Unregister_drop(Top(t).last_hook)
  /\ stack' = [stack EXCEPT ![t] =
                 [SubSeq(@, 1, Len(@) - 1) EXCEPT ![Len(@) - 1].held = Top(t).result]]
  /\ pc' = [pc EXCEPT ![t] = "run"]
  /\ obs' = NoObs
  /\ UNCHANGED <<log, inflight, npanics, consumed, entered, derive>>

\* no catch is left: the unwind ends the thread
UnwindRoot(t) ==
  /\ pc[t] = "unwinding"
  /\ Top(t).kind = "root"
  /\ inflight' = [inflight EXCEPT ![t] = NoFlight]
  /\ consumed' = consumed + 1
  /\ pc' = [pc EXCEPT ![t] = "dead"]
  /\ obs' = NoObs
  /\ UNCHANGED <<hook, log, stack, npanics, entered, derive>>

Step(t) ==
  \/ Throw(t)
  \/ Panic(t)
  \/ ThrowPayload(t)
  \/ Rethrow(t)
  \/ Call(t)
  \/ Return(t)
  \/ SetUserHook(t)
  \/ Finish(t)
  \/ RegisterTake(t)
  \/ RegisterSet(t)
  \/ CatchUnwindOk(t)
  \/ UnwindFrame(t)
  \/ CatchUnwindErr(t)
  \/ GuardDrop(t)
  \/ UnwindRoot(t)

\* name() of the caught exception: the value, or unimplemented!() for a
\* type that does not override it (lib.rs:112-114)
CallName(t) ==
  /\ pc[t] = "run"
  /\ Top(t).held.kind = "Exception"
  /\ LET e == Top(t).held.exc IN
       \/ /\ name(e) = Unimplemented
          /\ panic_any(t, UnimplPanic, "unimplemented", NoExc)
       \/ /\ name(e) # Unimplemented
          /\ obs' = [NoObs EXCEPT !.op = "name", !.thread = t, !.exc = e, !.val = name(e)]
          /\ UNCHANGED <<hook, log, stack, pc, inflight, npanics, consumed,
                         entered, derive>>

\* the concrete types user code asks a payload for
CastTypes == {"&str", "B", "()"}

\* Box<dyn Any>::downcast::<T>() / try_downcast::<T>: the value when the
\* boxed value has exactly the type T, else the box given back
Downcast(b, T) ==
  IF b.tyid = T
  THEN [ok |-> TRUE, val |-> b.val, rest |-> [tyid |-> "", val |-> ""]]
  ELSE [ok |-> FALSE, val |-> "", rest |-> b]

\* e.payload().downcast::<T>() on the caught exception (lib.rs:161, 227, 261)
TryDowncast(t) ==
  /\ pc[t] = "run"
  /\ Top(t).held.kind = "Exception"
  /\ payload(Top(t).held.exc).tyid # Unimplemented
  /\ \E T \in CastTypes :
       LET r == Downcast(payload(Top(t).held.exc), T) IN
         obs' = [op |-> "downcast", thread |-> t, exc |-> Top(t).held.exc, ty |-> T,
                 ok |-> r.ok, val |-> r.val, rest |-> r.rest]
  /\ UNCHANGED <<hook, log, stack, pc, inflight, npanics, consumed, entered, derive>>

\* one thread uses the library
Next == \E t \in MainThread : Step(t) \/ CallName(t) \/ TryDowncast(t)

Spec == Init /\ [][Next]_vars

(* ---- several threads, each calling catch from its entry function, ---- *)
(* ---- with one throw or panic in the run; no helper functions and   ---- *)
(* ---- no nested catch                                               ---- *)
ActsMT(t) ==
  \/ Top(t).kind = "root" /\ RegisterTake(t)
  \/ RegisterSet(t)
  \/ npanics = 0 /\ throw(t, Exc("MyE", 0), "throw")
  \/ npanics = 0
       /\ panic_any(t, StrPanic("this is an intended test panic"), "panic", NoExc)
  \/ CatchUnwindOk(t)
  \/ CatchUnwindErr(t)
  \/ GuardDrop(t)
  \/ UnwindRoot(t)

NextMT == \E t \in Threads : ActsMT(t)

SpecMT == Init /\ [][NextMT]_vars

(* ---- properties ---- *)
ResultsOf(t) == UNION {{stack[t][i].held, stack[t][i].result} : i \in 1..Len(stack[t])}
Results    == UNION {ResultsOf(t) : t \in Threads}
ErrResults == {r \in Results : r.kind \in {"Exception", "Panic"}}
Held(t)    == Top(t).held

\* C1: whatever value e was given to throw, at whatever depth below the
\* catch, the catch returns Exception(x) with x.name() = e.name() and
\* x.payload() = e.payload()
RoundTrip ==
  \A r \in ErrResults :
    r.thrown # NoExc =>
      /\ r.kind = "Exception"
      /\ name(r.exc) = name(r.thrown)
      /\ payload(r.exc) = payload(r.thrown)

\* a named exception came back through two function frames
RoundTripWitness ==
  \E t \in Threads :
    /\ pc[t] = "run"
    /\ Held(t).kind = "Exception"
    /\ Held(t).crossed >= 2
    /\ name(Held(t).exc) = "MyE"
    /\ payload(Held(t).exc).val = "MyE exception"

\* C2: an unwind whose payload is not the carrier type comes back as
\* Panic(p) with p the payload that was raised, never as Exception
PanicsPassThrough ==
  \A r \in ErrResults :
    r.src.tyid # CarrierTypeId => r.kind = "Panic" /\ r.p = r.src

\* a panic_any(Box<MyE>) (a box that is not the carrier) came back as Panic
PanicsPassThroughWitness ==
  \E t \in Threads :
    /\ pc[t] = "run"
    /\ Held(t).kind = "Panic"
    /\ Held(t).p.tyid = "Box<MyE>"

\* C3: a catch whose closure ended gives its caller exactly one outcome,
\* Ok exactly when the closure ran to its end, an Err exactly when an
\* unwind reached it
CatchClassifies ==
  [][\A t \in Threads :
       /\ (pc[t] # "drop" /\ pc'[t] = "drop") =>
            LET r == stack'[t][Len(stack'[t])].result IN
              /\ r.kind \in {"Ok", "Exception", "Panic"}
              /\ (r.kind = "Ok") <=> (pc[t] = "run")
       /\ (pc[t] = "drop" /\ pc'[t] # "drop") =>
            /\ pc'[t] = "run"
            /\ Len(stack'[t]) = Len(stack[t]) - 1
            /\ stack'[t][Len(stack'[t])].held = Top(t).result]_vars

\* after a catch that returned an Err, another one returned Ok
CatchClassifiesWitness ==
  \E t \in Threads :
    /\ pc[t] = "run"
    /\ Held(t).kind = "Ok"
    /\ consumed > 0

\* C4: in one thread, when a catch returns the hook is the one that was in
\* force when it was called; when the outermost returns, no filter is left
HookRestored ==
  [][\A t \in Threads :
       (pc[t] = "drop" /\ pc'[t] = "run") =>
         /\ hook' = Top(t).entry
         /\ (CatchLevels(t) = {Depth(t)} => hook'.kind \in {"default", "user"})]_vars

\* an inner catch has returned a Panic inside an outer one whose filter is
\* the hook again, the program's own hook H being kept by the outer guard
HookRestoredWitness ==
  \E t \in Threads :
    /\ pc[t] = "run"
    /\ InCatch(t)
    /\ Held(t).kind = "Panic"
    /\ hook = FilterHook(t, Innermost(t))
    /\ stack[t][Outermost(t)].last_hook.kind = "user"

\* C5: in one thread, a carrier raised while a catch is active prints
\* nothing, and the hook in force in a running catch is a filter
TypedSilent ==
  /\ \A k \in 1..Len(log) : log[k].incatch => log[k].tyid # CarrierTypeId
  /\ \A t \in MainThread : (pc[t] = "run" /\ InCatch(t)) => hook.kind = "filter"

\* a carrier is unwinding from an outer catch in which an inner catch has
\* already returned, and nothing has been printed
TypedSilentWitness ==
  \E t \in MainThread :
    /\ pc[t] = "unwinding"
    /\ inflight[t].p.tyid = CarrierTypeId
    /\ InCatch(t)
    /\ Held(t).kind # "none"
    /\ log = <<>>

\* C6: an ordinary panic raised in an active catch is printed by the logic
\* of the hook that was in force before the catch, whichever hook that was
OpaqueLoggedByDisplaced ==
  \A k \in 1..Len(log) :
    (log[k].incatch /\ log[k].tyid # CarrierTypeId) =>
      log[k].sink = HookPrints(log[k].ambient, [tyid |-> log[k].tyid])

\* C7: an unwind is classified by the catch that was innermost when it was
\* raised, ends there, and is counted once; the code around that catch
\* goes on running
InnermostFirst ==
  /\ \A r \in ErrResults : r.by = r.inner
  /\ npanics = consumed + Cardinality({t \in Threads : pc[t] = "unwinding"})
  /\ \A t \in Threads : pc[t] # "unwinding" => inflight[t] = NoFlight

\* the closure of an outer catch runs on, holding the exception its inner
\* catch returned
InnermostFirstWitness ==
  \E t \in Threads :
    /\ pc[t] = "run"
    /\ Top(t).kind = "catch"
    /\ Held(t).kind = "Exception"
    /\ Held(t).by = Depth(t) + 1

\* C8: the exception taken from the payload of a caught A and thrown again
\* is returned by the enclosing catch as an Exception named "B"
RethrowPropagation ==
  \A r \in ErrResults :
    r.origin = "payload" => r.kind = "Exception" /\ name(r.exc) = "B"

\* the outer catch has returned B, raised from inside it after the inner
\* catch had returned A
RethrowPropagationWitness ==
  \E t \in Threads :
    /\ pc[t] = "run"
    /\ Held(t).origin = "payload"
    /\ Held(t).kind = "Exception"
    /\ Held(t).inner = Depth(t) + 1

\* C9: the frame that called throw runs no further statement: it raised
\* once, is the top frame, and is being unwound or has been classified
ThrowNeverReturns ==
  \A t \in Threads : \A i \in 1..Depth(t) :
    stack[t][i].raised > 0 =>
      /\ stack[t][i].raised = 1
      /\ i = Depth(t)
      /\ pc[t] \in {"unwinding", "drop", "dead"}
      /\ pc[t] = "drop" => stack[t][i].result.kind # "Ok"

\* a closure that threw B has been classified as Exception(B)
ThrowNeverReturnsWitness ==
  \E t \in Threads :
    /\ pc[t] = "drop"
    /\ Top(t).raised = 1
    /\ Top(t).result.kind = "Exception"
    /\ Top(t).result.exc.ty = "B"

\* C10: an unwind is returned as Exception exactly when its payload has the
\* carrier type, also for a type that overrides neither name nor payload
ClassifiedByCarrier ==
  \A r \in ErrResults :
    (r.kind = "Exception") <=> (r.src.tyid = CarrierTypeId)

\* an exception of a type with no name() and no payload() came back
ClassifiedByCarrierWitness ==
  \E t \in Threads :
    /\ pc[t] = "run"
    /\ Held(t).kind = "Exception"
    /\ name(Held(t).exc) = Unimplemented
    /\ payload(Held(t).exc).tyid = Unimplemented

(* ---- trycatch-derive: derive_exception ---- *)
\* a proc_macro TokenTree, by its kind and its to_string()
Tok(k, x) == [kind |-> k, text |-> x]
\* what item.next() gives at the end of the stream
NoToken   == Tok("None", "")

\* an attribute is `#` and a bracket group; a visibility is nothing, `pub`,
\* or `pub` and a parenthesis group
Attributes   == {<<Tok("Punct", "#"), Tok("Group", "[allow(dead_code)]")>>,
                 <<Tok("Punct", "#"), Tok("Group", "[doc = \"struct\"]")>>}
Visibilities == {<<>>, <<Tok("Ident", "pub")>>,
                 <<Tok("Ident", "pub"), Tok("Group", "(crate)")>>}
Keywords     == {"struct", "enum", "union"}
Identifiers  == {"MyE", "Foo"}
Bodies       == {<<Tok("Punct", ";")>>, <<Tok("Group", "{ a: u32 }")>>}

RECURSIVE AttrSeqs(_)
AttrSeqs(n) ==
  IF n = 0 THEN {<<>>}
  ELSE AttrSeqs(n - 1) \cup {a \o r : a \in Attributes, r \in AttrSeqs(n - 1)}

\* the token streams a derive is given: a declaration, or nothing
Declarations ==
  {a \o v \o <<Tok("Ident", k), Tok("Ident", i)>> \o b :
     a \in AttrSeqs(MaxAttrs), v \in Visibilities, k \in Keywords,
     i \in Identifiers, b \in Bodies}
Inputs == Declarations \cup {<<>>}

NoImpl == [target |-> "", name_returns |-> "", methods |-> {}]

\* let mut item = item.into_iter()
DeriveStart(ts) == [tokens |-> ts, pos |-> 1, mpc |-> "scan", ident |-> "",
                    out |-> NoImpl, polls |-> 0]

\* item.next(): the next token, or None at the end, again and again
ItemNext == IF derive.pos <= Len(derive.tokens) THEN derive.tokens[derive.pos] ELSE NoToken
Advance  == IF derive.pos <= Len(derive.tokens) THEN derive.pos + 1 ELSE derive.pos

\* a test that takes every identifier for the keyword
is_any_ident(next) ==
  IF next = NoToken THEN FALSE ELSE next.kind = "Ident"

\* fn is_struct_or_enum(next: Option<TokenTree>) -> bool, lines 26-31
is_struct_or_enum(next) ==
  IF next = NoToken
  THEN FALSE
  ELSE next.kind = "Ident" /\ (next.text = "struct" \/ next.text = "enum")

\* line 8: one turn of  while !is_struct_or_enum(item.next()) {}
\* polls is the parity of the turns made at the end of the stream
Scan ==
  /\ derive.mpc = "scan"
  /\ derive' = [derive EXCEPT
                  !.pos = Advance,
                  !.mpc = IF is_struct_or_enum(ItemNext) THEN "ident" ELSE "scan",
                  !.polls = IF ItemNext = NoToken THEN 1 - @ ELSE @]
  /\ UNCHANGED <<hook, log, stack, pc, inflight, npanics, consumed, entered, obs>>

\* line 9: item.next().ok_or("Could not find identifier")?.to_string()
TakeIdent ==
  /\ derive.mpc = "ident"
  /\ derive' = [derive EXCEPT
                  !.pos = Advance,
                  !.ident = ItemNext.text,
                  !.mpc = IF ItemNext = NoToken THEN "failed" ELSE "format"]
  /\ UNCHANGED <<hook, log, stack, pc, inflight, npanics, consumed, entered, obs>>

\* lines 10-21: the impl block that format! writes for the identifier
ImplFor(id) == [target |-> id, name_returns |-> id, methods |-> {"name", "into_any"}]

Emit ==
  /\ derive.mpc = "format"
  /\ derive' = [derive EXCEPT !.out = ImplFor(derive.ident), !.mpc = "emitted"]
  /\ UNCHANGED <<hook, log, stack, pc, inflight, npanics, consumed, entered, obs>>

InitDerive ==
  /\ hook = DefaultHook
  /\ log = <<>>
  /\ stack = [t \in Threads |-> <<Frame("root")>>]
  /\ pc = [t \in Threads |-> "run"]
  /\ inflight = [t \in Threads |-> NoFlight]
  /\ npanics = 0
  /\ consumed = 0
  /\ entered = {}
  /\ obs = NoObs
  /\ \E ts \in Inputs : derive = DeriveStart(ts)

NextDerive == Scan \/ TakeIdent \/ Emit

\* the compiler runs the macro to its end: a step that can be taken is taken
SpecDerive == InitDerive /\ [][NextDerive]_vars /\ WF_vars(NextDerive)

\* the place of the first top-level struct or enum keyword of a stream
KeywordAt(ts) ==
  {i \in 1..Len(ts) : /\ ts[i].kind = "Ident" /\ ts[i].text \in {"struct", "enum"}
                       /\ \A j \in 1..(i - 1) :
                            ~(ts[j].kind = "Ident" /\ ts[j].text \in {"struct", "enum"})}

DeriveTerminates == <>(derive.mpc \in {"emitted", "failed"})

\* C12: asking the payload of a caught exception for the type T succeeds
\* exactly when the payload was made with type T, and then gives its value;
\* a wrong T gives the payload back unchanged, the thread runs on and
\* another T can be tried on what came back
MismatchHandling ==
  obs.op = "downcast" =>
    LET made == TypePayload(obs.exc.ty) IN
      /\ obs.ok <=> (made.tyid = obs.ty)
      /\ obs.ok => obs.val = made.val
      /\ ~obs.ok => /\ obs.rest = made
                    /\ Downcast(obs.rest, made.tyid).ok
                    /\ pc[obs.thread] = "run"

\* the payload of a MyE that came back through a re-throw was asked for
\* type B and was given back unchanged
MismatchHandlingWitness ==
  /\ obs.op = "downcast"
  /\ obs.exc.ty = "MyE"
  /\ obs.exc.wrap >= 1
  /\ obs.ty = "B"
  /\ ~obs.ok
  /\ obs.rest = [tyid |-> "&str", val |-> "MyE exception"]

\* C15: name() and payload() of a type that does not override them abort
\* with an ordinary panic, which is printed; inside a catch that catch
\* returns Panic; name() gives a value only for a type that overrides it
DefaultAborts ==
  /\ \A r \in ErrResults :
       r.origin = "unimplemented" => r.kind = "Panic" /\ r.p = UnimplPanic
  /\ \A t \in MainThread :
       inflight[t].origin = "unimplemented" =>
         /\ inflight[t].p = UnimplPanic
         /\ Len(log) > 0
         /\ log[Len(log)].tyid = "&str"
         /\ log[Len(log)].sink # ""
  /\ obs.op = "name" => obs.exc.ty \in {"MyE", "B"} /\ obs.val = obs.exc.ty

\* the catch around a call of a default name() or payload() returned Panic
\* and the panic was printed
DefaultAbortsWitness ==
  \E t \in MainThread :
    /\ pc[t] = "run"
    /\ Held(t).origin = "unimplemented"
    /\ Held(t).kind = "Panic"
    /\ Len(log) >= 1

\* C18: in one thread, an ordinary panic raised inside one or more nested
\* catches is printed once, when it is raised; nothing more is printed
\* while it unwinds and the catches return
OpaqueLoggedOnce ==
  [][\A t \in MainThread :
       /\ (pc[t] = "run" /\ pc'[t] = "unwinding" /\ InCatch(t)
             /\ inflight'[t].p.tyid # CarrierTypeId) =>
            /\ Len(log') = Len(log) + 1
            /\ SubSeq(log', 1, Len(log)) = log
            /\ log'[Len(log')].sink = "stderr"
       /\ pc[t] # "run" => log' = log]_vars

\* an ordinary panic is unwinding out of two nested catches and has been
\* printed once
OpaqueLoggedOnceWitness ==
  \E t \in MainThread :
    /\ pc[t] = "unwinding"
    /\ Cardinality(CatchLevels(t)) >= 2
    /\ inflight[t].p.tyid = "&str"
    /\ Len(log) = 1

\* C19: a caught box thrown again comes back from the enclosing catch as
\* an Exception, one more layer of box around the value first thrown, with
\* the name and payload of that value
RethrowIdentity ==
  \A r \in ErrResults :
    r.origin = "rethrow" =>
      /\ r.kind = "Exception"
      /\ r.exc.wrap >= 1
      /\ r.exc.ty = r.thrown.ty
      /\ name(r.exc) = TypeName(r.thrown.ty)
      /\ payload(r.exc) = TypePayload(r.thrown.ty)

\* a MyE came back after being thrown again twice
RethrowIdentityWitness ==
  \E t \in Threads :
    /\ pc[t] = "run"
    /\ Held(t).origin = "rethrow"
    /\ Held(t).exc.wrap = 2
    /\ name(Held(t).exc) = "MyE"
    /\ payload(Held(t).exc).val = "MyE exception"

(* ---- several threads ---- *)
\* thread t runs the closure of a catch
Running(t) == pc[t] = "run" /\ InCatch(t)

\* the hook in force is the filter thread t installed for its innermost catch
OwnFilter(t) ==
  /\ hook.kind = "filter"
  /\ hook.owner = t
  /\ hook.level = Innermost(t)

\* C11: whatever the interleaving, once no catch is active in any thread
\* the hook is the one that was installed before the first catch
HookRestoredAllThreads ==
  (\A t \in Threads : ~InCatch(t)) => hook = DefaultHook

\* C13: between the take_hook and the set_hook of a thread no other thread
\* changes the hook
SwapAtomic ==
  [][\A t \in Threads :
       (pc[t] = "taken" /\ pc'[t] = "taken") => hook' = hook]_vars

\* C14: a thread that runs the closure of its catch under a hook that is
\* not its own filter has been displaced by another thread: some other
\* thread has called catch
DisplacedByOther ==
  \A t \in Threads :
    (Running(t) /\ ~OwnFilter(t)) => entered \ {t} # {}

\* thread t still runs inside its catch under the default hook, which the
\* guard of thread u put back when the catch of u returned
DisplacedByOtherWitness ==
  \E t, u \in Threads :
    /\ t # u
    /\ Running(t)
    /\ hook = DefaultHook
    /\ pc[u] = "run"
    /\ ~InCatch(u)
    /\ Held(u).kind = "Ok"

\* a carrier is raised by a thread that is in no catch
BareThrow(t) ==
  /\ pc[t] = "run"
  /\ pc'[t] = "unwinding"
  /\ ~InCatch(t)
  /\ inflight'[t].p.tyid = CarrierTypeId

====
